---- MODULE Spec2Model ----
(***************************************************************************)
(* A model of ObjectContainer<T> (src/src/ObjectContainer.ts): a wrapper   *)
(* over a plain JavaScript object with optional lower-casing of keys and   *)
(* of string values.                                                       *)
(*                                                                         *)
(* JavaScript objects live on a heap and are reached through references,   *)
(* so that this.data, the object handed to the constructor and a reference *)
(* returned by items() may or may not be the same object.  An object is a  *)
(* sequence of <<key, value>> pairs in insertion order (the order of       *)
(* Object.keys and of for..in); a property that is not an own property is  *)
(* looked up in Object.prototype, as obj[key] does for an object literal.  *)
(***************************************************************************)
EXTENDS Integers, Sequences, FiniteSets, TLC

VARIABLES
    heap,           \* object reference -> the object behind it
    data,           \* this.data: the reference the container holds
    config,         \* this.config
    configuration,  \* the constructor's second argument, as it was passed
    caller,         \* the reference the constructor's caller kept to its `data` argument, or NoRef
    given,          \* <<what the caller's object held when the constructor was called>>, or << >>
    view,           \* a reference returned by items() / all() that the caller kept, or NoRef
    called,         \* the method called last ("constructor" after construction)
    ret             \* what that call returned

vars == <<heap, data, config, configuration, caller, given, view, called, ret>>

----------------------------------------------------------------------------
(* Bounds of the model *)

\* the largest number of entries of a constructor's initial mapping
MaxInitial == 1

\* the largest number of entries of a populate() argument
MaxPopulate == 1

\* the largest number of entries of an initial mapping whose caller keeps it
MaxGiven == 2

----------------------------------------------------------------------------
(* JavaScript values *)

Str(s)     == [type |-> "string", val |-> s]
Num        == [type |-> "number", val |-> "1"]
Null       == [type |-> "object", val |-> "null"]
Undefined  == [type |-> "undefined", val |-> "undefined"]
\* the function Object, the value of the inherited property "constructor"
ObjectCtor == [type |-> "function", val |-> "Object"]

typeof(v) == v.type

\* String.prototype.toLowerCase on the strings of the model
toLowerCase(s) ==
    CASE s = "A" -> "a"
      [] s = "X" -> "x"
      [] OTHER   -> s

\* the keys and the values the operations are called with
Keys   == {"A", "a", "constructor"}
Values == {Str("X"), Str("x"), Num, Null, Undefined}

\* the keys and values used where two references are followed at once
FewKeys   == {"A", "a"}
FewValues == {Str("X"), Undefined}

----------------------------------------------------------------------------
(* Objects: own properties in insertion order, and the prototype *)

\* the properties every object literal inherits (one of them is modelled)
ObjectPrototype == [k \in {"constructor"} |-> ObjectCtor]

EmptyObject == << >>

hasOwn(o, k) == \E i \in DOMAIN o : o[i][1] = k

ownValue(o, k) == o[CHOOSE i \in DOMAIN o : o[i][1] = k][2]

\* o[k] read: own property, else inherited, else undefined
lookup(o, k) ==
    IF hasOwn(o, k) THEN ownValue(o, k)
    ELSE IF k \in DOMAIN ObjectPrototype THEN ObjectPrototype[k]
    ELSE Undefined

\* a write that adds an entry without looking for the key
assign_Appending(o, k, v) == Append(o, <<k, v>>)

\* o[k] = v: an own property keeps its place, a new one goes last
assign(o, k, v) ==
    IF hasOwn(o, k)
    THEN [i \in DOMAIN o |-> IF o[i][1] = k THEN <<k, v>> ELSE o[i]]
    ELSE Append(o, <<k, v>>)

\* a delete that takes the entries after the key with it
deleteProp_Truncating(o, k) ==
    IF hasOwn(o, k) THEN SubSeq(o, 1, (CHOOSE i \in DOMAIN o : o[i][1] = k) - 1) ELSE o

\* delete o[k]
deleteProp(o, k) == SelectSeq(o, LAMBDA p : p[1] # k)

\* Object.keys(o), Object.values(o)
ObjectKeys(o)   == [i \in DOMAIN o |-> o[i][1]]
ObjectValues(o) == [i \in DOMAIN o |-> o[i][2]]

Range(s) == {s[i] : i \in DOMAIN s}

\* every object with at most n own properties, keys from K and values from V
RECURSIVE ObjectsUpTo(_, _, _)
ObjectsUpTo(n, K, V) ==
    IF n = 0 THEN {EmptyObject}
    ELSE LET smaller == ObjectsUpTo(n - 1, K, V)
             longest == {o \in smaller : Len(o) = n - 1}
             more    == {t \in longest \X K \X V : ~hasOwn(t[1], t[2])}
         IN  smaller \cup {Append(t[1], <<t[2], t[3]>>) : t \in more}

----------------------------------------------------------------------------
(* The heap *)

Ids   == 0 .. 2
NoRef == -1

\* the references somebody holds
Roots(d, c, w) == {d, c, w} \ {NoRef}

\* a fresh object: a reference nobody will hold once this.data is rebound
Alloc(c, w) == CHOOSE i \in Ids : i \notin Roots(NoRef, c, w) /\
                   \A j \in Ids : j \notin Roots(NoRef, c, w) => i <= j

\* objects nobody holds a reference to are reclaimed
Collect(h, d, c, w) == [i \in Ids |-> IF i \in Roots(d, c, w) THEN h[i] ELSE EmptyObject]

\* the object behind this.data
thisData == heap[data]

----------------------------------------------------------------------------
(* Configuration and construction *)

True  == [type |-> "boolean", val |-> "true"]
False == [type |-> "boolean", val |-> "false"]

\* a configuration argument with both flags given
FullConfigurations ==
    [convertAllKeysToLowerCase : {True, False}, convertAllValuesToLowerCase : {True, False}]

\* every configuration argument: none, or flags that are true, false or unset
AllConfigurations ==
    {Undefined} \cup
    [convertAllKeysToLowerCase   : {True, False, Undefined},
     convertAllValuesToLowerCase : {True, False, Undefined}]

\* the field initialiser of config
defaultConfig == [convertAllKeysToLowerCase |-> FALSE, convertAllValuesToLowerCase |-> FALSE]

\* a constructor that takes both flags from convertAllKeysToLowerCase
constructorConfig_KeysFlagTwice(c) ==
    IF c = Undefined THEN defaultConfig
    ELSE [convertAllKeysToLowerCase   |-> c.convertAllKeysToLowerCase = True,
          convertAllValuesToLowerCase |-> c.convertAllKeysToLowerCase = True]

\* the constructor's handling of its configuration argument
constructorConfig(c) ==
    IF c = Undefined THEN defaultConfig
    ELSE [convertAllKeysToLowerCase   |->
              IF c.convertAllKeysToLowerCase = True THEN TRUE
              ELSE defaultConfig.convertAllKeysToLowerCase,
          convertAllValuesToLowerCase |->
              IF c.convertAllValuesToLowerCase = True THEN TRUE
              ELSE defaultConfig.convertAllValuesToLowerCase]

\* the loop of prepareData: the entries of src, converted, written into dst
RECURSIVE prepareLoop(_, _, _)
prepareLoop(dst, src, cfg) ==
    IF src = << >> THEN dst
    ELSE LET dataKey == Head(src)[1]
             v0      == Head(src)[2]
             value   == IF cfg.convertAllValuesToLowerCase /\ typeof(v0) = "string"
                        THEN Str(toLowerCase(v0.val)) ELSE v0
             key     == IF cfg.convertAllKeysToLowerCase
                        THEN toLowerCase(dataKey) ELSE dataKey
         IN  prepareLoop(assign(dst, key, value), Tail(src), cfg)

\* a prepareData that returns early unless both flags are on
prepareRebinds_BothFlags(cfg) == cfg.convertAllValuesToLowerCase /\ cfg.convertAllKeysToLowerCase

\* prepareData rebinds this.data unless both flags are off
prepareRebinds(cfg) == cfg.convertAllValuesToLowerCase \/ cfg.convertAllKeysToLowerCase

prepareData(o, cfg) == IF prepareRebinds(cfg) THEN prepareLoop(EmptyObject, o, cfg) ELSE o

\* the state after new ObjectContainer(D, c); passed: a data argument was given,
\* keeps: the caller kept its reference to it
Constructed(D, passed, c, keeps) ==
    LET cfg  == constructorConfig(c)
        kept == IF passed /\ keeps THEN 0 ELSE NoRef
        d    == IF prepareRebinds(cfg) THEN Alloc(kept, NoRef) ELSE 0
        h0   == [i \in Ids |-> IF i = 0 THEN D ELSE EmptyObject]
        h1   == [h0 EXCEPT ![d] = prepareData(D, cfg)]
    IN  /\ configuration = c
        /\ config = cfg
        /\ caller = kept
        /\ given = IF kept = NoRef THEN << >> ELSE <<D>>
        /\ data = d
        /\ heap = Collect(h1, d, kept, NoRef)
        /\ view = NoRef
        /\ called = "constructor"
        /\ ret = "this"

\* initial mappings
InitialData == ObjectsUpTo(MaxInitial, Keys, Values)

\* construction from a literal (or from nothing), with both flags given
Init ==
    \E D \in InitialData, passed \in BOOLEAN, c \in FullConfigurations :
        /\ ~passed => D = EmptyObject
        /\ Constructed(D, passed, c, FALSE)

----------------------------------------------------------------------------
(* Normalisation and queries *)

\* a convertKey that returns the key as it was given
convertKey_Unconverted(key) == key

convertKey(key) ==
    IF config.convertAllKeysToLowerCase THEN toLowerCase(key) ELSE key

convertValue(value) ==
    IF config.convertAllValuesToLowerCase /\ value # Undefined
    THEN (IF typeof(value) = "string" THEN Str(toLowerCase(value.val)) ELSE value)
    ELSE value

\* has(key, value); has(key) is has(key, Undefined)
has(key, value) ==
    LET k == convertKey(key)
        v == convertValue(value)
    IN  IF v # Undefined
        THEN (IF lookup(thisData, k) = Undefined THEN FALSE ELSE lookup(thisData, k) = v)
        ELSE lookup(thisData, k) # Undefined

\* get(key, _default); get(key) is get(key, Null)
get(key, _default) ==
    LET v == lookup(thisData, convertKey(key))
    IN  IF v = Null \/ v = Undefined THEN _default ELSE v

keys   == ObjectKeys(thisData)
values == ObjectValues(thisData)
empty  == Len(keys) = 0

----------------------------------------------------------------------------
(* Mutating operations *)

\* the contents of this.data after put(key, value)
put(key, value) == assign(thisData, convertKey(key), convertValue(value))

\* the loop of populate: the entries of src written into dst
RECURSIVE populateLoop(_, _)
populateLoop(dst, src) ==
    IF src = << >> THEN dst
    ELSE populateLoop(assign(dst, Head(src)[1], Head(src)[2]), Tail(src))

\* the contents of the object populate(m) binds this.data to
populate(m) == populateLoop(EmptyObject, m)

\* a write that copies: this.data is bound to a new object holding o
Write_Copying(o) ==
    LET d == Alloc(caller, view)
    IN  /\ data' = d
        /\ heap' = Collect([heap EXCEPT ![d] = o], d, caller, view)
        /\ UNCHANGED <<config, configuration, caller, given, view>>

\* this.data[...] is written in place: every holder of the reference sees it
Write(o) ==
    /\ heap' = [heap EXCEPT ![data] = o]
    /\ UNCHANGED <<data, config, configuration, caller, given, view>>

\* this.data is bound to a new object holding o
Rebind(o) ==
    LET d == Alloc(caller, view)
    IN  /\ data' = d
        /\ heap' = Collect([heap EXCEPT ![d] = o], d, caller, view)
        /\ UNCHANGED <<config, configuration, caller, given, view>>

Put(key, value) ==
    /\ Write(put(key, value))
    /\ called' = "put"
    /\ ret' = "this"

PutIfNotExists(key, value) ==
    /\ called' = "putIfNotExists"
    /\ IF has(key, Undefined)
       THEN /\ ret' = "false"
            /\ UNCHANGED <<heap, data, config, configuration, caller, given, view>>
       ELSE /\ Write(put(convertKey(key), convertValue(value)))
            /\ ret' = "true"

\* what forget(key) does to the container, whoever calls it
forget(key) ==
    /\ IF ~has(key, Undefined)
       THEN UNCHANGED <<heap, data, config, configuration, caller, given, view>>
       ELSE Write(deleteProp(thisData, convertKey(key)))
    /\ ret' = "this"

Forget(key) ==
    /\ forget(key)
    /\ called' = "forget"

Remove(key) ==
    /\ forget(key)
    /\ called' = "remove"

Clear ==
    /\ Rebind(EmptyObject)
    /\ called' = "clear"
    /\ ret' = "undefined"

Populate(m) ==
    /\ Rebind(populate(m))
    /\ called' = "populate"
    /\ ret' = "this"

\* populate() arguments
PopulateData == ObjectsUpTo(MaxPopulate, Keys, Values)

Next ==
    \/ \E k \in Keys, v \in Values : Put(k, v)
    \/ \E k \in Keys, v \in Values : PutIfNotExists(k, v)
    \/ \E k \in Keys : Forget(k)
    \/ \E k \in Keys : Remove(k)
    \/ Clear
    \/ \E m \in PopulateData : Populate(m)

Spec == Init /\ [][Next]_vars

----------------------------------------------------------------------------
(* A caller that keeps the reference items() / all() returned *)

\* the reference items() returns
items == data

all == items

Items ==
    /\ view' = items
    /\ called' = "items"
    /\ ret' = "data"
    /\ UNCHANGED <<heap, data, config, configuration, caller, given>>

All ==
    /\ view' = all
    /\ called' = "all"
    /\ ret' = "data"
    /\ UNCHANGED <<heap, data, config, configuration, caller, given>>

\* r[key] = value, by the holder of r
ViewAssign(key, value) ==
    /\ view # NoRef
    /\ heap' = [heap EXCEPT ![view] = assign(@, key, value)]
    /\ UNCHANGED <<data, config, configuration, caller, given, view, called, ret>>

\* delete r[key], by the holder of r
ViewDelete(key) ==
    /\ view # NoRef
    /\ heap' = [heap EXCEPT ![view] = deleteProp(@, key)]
    /\ UNCHANGED <<data, config, configuration, caller, given, view, called, ret>>

InitView ==
    \E D \in ObjectsUpTo(MaxInitial, FewKeys, FewValues), c \in FullConfigurations :
        Constructed(D, TRUE, c, FALSE)

NextView ==
    \/ \E k \in FewKeys, v \in FewValues : Put(k, v)
    \/ \E k \in FewKeys, v \in FewValues : PutIfNotExists(k, v)
    \/ \E k \in FewKeys : Forget(k)
    \/ \E k \in FewKeys : Remove(k)
    \/ Clear
    \/ \E m \in ObjectsUpTo(MaxPopulate, FewKeys, FewValues) : Populate(m)
    \/ Items
    \/ All
    \/ \E k \in FewKeys, v \in FewValues : ViewAssign(k, v)
    \/ \E k \in FewKeys : ViewDelete(k)

SpecView == InitView /\ [][NextView]_vars

----------------------------------------------------------------------------
(* A caller that keeps the object it constructed the container from *)

\* initial mappings of such a caller
GivenData == ObjectsUpTo(MaxGiven, FewKeys, FewValues)

InitCaller ==
    \E D \in GivenData, c \in FullConfigurations : Constructed(D, TRUE, c, TRUE)

NextCaller ==
    \/ \E k \in FewKeys, v \in FewValues : Put(k, v)
    \/ \E k \in FewKeys, v \in FewValues : PutIfNotExists(k, v)
    \/ \E k \in FewKeys : Forget(k)
    \/ \E k \in FewKeys : Remove(k)
    \/ Clear
    \/ \E m \in ObjectsUpTo(MaxPopulate, FewKeys, FewValues) : Populate(m)

SpecCaller == InitCaller /\ [][NextCaller]_vars

----------------------------------------------------------------------------
(* Construction with any configuration argument *)

InitConfig ==
    \E D \in ObjectsUpTo(MaxInitial, FewKeys, FewValues), c \in AllConfigurations :
        Constructed(D, TRUE, c, FALSE)

SpecConfig == InitConfig /\ [][NextView]_vars

----------------------------------------------------------------------------
(* The shape of the state *)

\* an object of the model: distinct own keys, each with a value
IsObject(o) ==
    /\ \A i \in DOMAIN o : o[i][1] \in Keys /\ o[i][2] \in Values
    /\ \A i, j \in DOMAIN o : o[i][1] = o[j][1] => i = j

TypeOK ==
    /\ \A i \in Ids : IsObject(heap[i])
    /\ data \in Ids
    /\ config \in [convertAllKeysToLowerCase : BOOLEAN, convertAllValuesToLowerCase : BOOLEAN]
    /\ configuration \in AllConfigurations
    /\ caller \in Ids \cup {NoRef}
    /\ Len(given) <= 1
    /\ view \in Ids \cup {NoRef}
    /\ called \in {"constructor", "put", "putIfNotExists", "forget", "remove", "clear",
                   "populate", "items", "all"}
    /\ ret \in {"this", "true", "false", "undefined", "data"}

----------------------------------------------------------------------------
(* Properties *)

\* the own properties of an object, as a set of <<key, value>> entries
Entries(o) == Range(o)

\* the first entries of the mapping: what it held before the last call, for
\* the key a call is made with
Present(key) == hasOwn(thisData, convertKey(key))
Stored(key)  == ownValue(thisData, convertKey(key))

\* C1: in a container with convertAllKeysToLowerCase set, every key of the
\* mapping equals its own lowercase form, in every state the mutating
\* operations reach.
C1_KeysAreLowercase ==
    config.convertAllKeysToLowerCase =>
        \A i \in DOMAIN keys : keys[i] = toLowerCase(keys[i])

\* C2: in a container with convertAllValuesToLowerCase set, every string
\* value of the mapping equals its own lowercase form, in every state the
\* mutating operations reach.
C2_StringValuesAreLowercase ==
    config.convertAllValuesToLowerCase =>
        \A i \in DOMAIN values :
            typeof(values[i]) = "string" => values[i].val = toLowerCase(values[i].val)

\* C3: has(k) is true exactly when the normalised key is a member of keys(),
\* whatever value is stored under it.
C3_HasIffKeyPresent ==
    \A k \in Keys : has(k, Undefined) <=> convertKey(k) \in Range(keys)

\* C4: get(k, d) is the value stored under the normalised key when that key
\* is present, and d only when it is absent.
C4_GetStoredElseDefault ==
    \A k \in Keys, d \in Values :
        get(k, d) = IF Present(k) THEN Stored(k) ELSE d

\* C5: has(k, v) is true exactly when the normalised key is present and the
\* stored value is strictly equal to the normalised v, for every v.
C5_HasValueIffStoredEqual ==
    \A k \in Keys, v \in Values :
        has(k, v) <=> (Present(k) /\ Stored(k) = convertValue(v))

\* C6: putIfNotExists(k, v) on an absent key returns true and stores the
\* normalised v under the normalised k; on a key already in the mapping it
\* returns false and leaves the mapping as it was (so a second
\* putIfNotExists(k, v2) never overwrites what the first one stored).
C6_PutIfNotExistsNeverOverwrites ==
    [][\A k \in Keys, v \in Values :
          PutIfNotExists(k, v) =>
              IF Present(k)
              THEN ret' = "false" /\ thisData' = thisData
              ELSE ret' = "true" /\ thisData' = assign(thisData, convertKey(k), convertValue(v))
      ]_vars

\* C7: after forget(k) (and remove(k)) the normalised key is no key of the
\* mapping and has(k) is false, whatever was stored under it.
C7_ForgetRemovesKey ==
    [][\A k \in Keys :
          (Forget(k) \/ Remove(k)) =>
              /\ convertKey(k) \notin Range(keys')
              /\ ~has(k, Undefined)'
      ]_vars

\* C8: after populate(m) the mapping items() returns holds exactly the
\* entries of m with the key and the value of each normalised, and nothing
\* of what it held before.
C8_PopulateRoundTrip ==
    [][\A m \in PopulateData :
          Populate(m) =>
              Entries(heap'[items']) =
                  {<<convertKey(e[1]), convertValue(e[2])>> : e \in Entries(m)}
      ]_vars

C10_CaseInsensitiveReads ==
    config.convertAllKeysToLowerCase =>
        \A k \in Keys, d \in Values :
            /\ has(k, Undefined) = has(toLowerCase(k), Undefined)
            /\ get(k, d) = get(toLowerCase(k), d)

\* a mixed-case query key reads an entry stored under the lowercase key
C10_Witness ==
    /\ config.convertAllKeysToLowerCase
    /\ hasOwn(thisData, "a")
    /\ has("A", Undefined)
    /\ get("A", Null) = Str("X")
    /\ called = "put"

\* C11: right after construction from an initial mapping D the keys of the
\* mapping are exactly the normalised keys of D, the value under each is the
\* normalised value of an entry of D with that normalised key, and so every
\* key and every string value is in the case the configuration asks for,
\* also when keys of D differ only in case.
C11_ConstructedFromInitial ==
    (called = "constructor" /\ given # << >>) =>
        LET D == given[1]
        IN  /\ Range(keys) = {convertKey(k) : k \in Range(ObjectKeys(D))}
            /\ \A k \in Range(keys) :
                   \E i \in DOMAIN D :
                       /\ convertKey(D[i][1]) = k
                       /\ ownValue(thisData, k) = convertValue(D[i][2])
            /\ config.convertAllKeysToLowerCase =>
                   \A i \in DOMAIN keys : keys[i] = toLowerCase(keys[i])
            /\ config.convertAllValuesToLowerCase =>
                   \A i \in DOMAIN values :
                       typeof(values[i]) = "string" =>
                           values[i].val = toLowerCase(values[i].val)

\* a container constructed, with lower-cased keys, from two keys that differ
\* only in case
C11_Witness ==
    /\ called = "constructor"
    /\ given # << >>
    /\ Len(given[1]) = 2
    /\ config.convertAllKeysToLowerCase
    /\ ~config.convertAllValuesToLowerCase
    /\ keys = <<"a">>

\* C12: put is idempotent: a second put(k, v) right after put(k, v) leaves
\* the mapping, the references and the configuration as the first one left them.
C12_PutIdempotent ==
    [][called' = "put" =>
          \A k \in Keys, v \in Values :
              Put(k, v) =>
                  /\ put(k, v)' = thisData'
                  /\ config' = config
      ]_vars

\* a put has been made that lower-cased its key and its value
C12_Witness ==
    /\ called = "put"
    /\ config.convertAllKeysToLowerCase
    /\ config.convertAllValuesToLowerCase
    /\ thisData = <<<<"a", Str("x")>>>>

\* C13: in a container with convertAllValuesToLowerCase set, right after
\* put(k, v) the call get(k) returns the lowercase form of v when v is a
\* string, and v itself when it is not.
C13_GetAfterPut ==
    [][(called' = "put" /\ config.convertAllValuesToLowerCase) =>
          \A k \in Keys, v \in Values :
              Put(k, v) =>
                  get(k, Null)' = IF typeof(v) = "string"
                                  THEN Str(toLowerCase(v.val)) ELSE v
      ]_vars

\* C14: for a key whose normalised form is no key of the mapping, has(k) is
\* false, get(k) is null, get(k, d) is d, and forget(k) / remove(k) return
\* the container and leave the mapping as it was.
C14_MissingKeyIsHarmless ==
    [][\A k \in Keys :
          ~Present(k) =>
              /\ ~has(k, Undefined)
              /\ get(k, Null) = Null
              /\ \A d \in Values : get(k, d) = d
              /\ (Forget(k) \/ Remove(k)) => (thisData' = thisData /\ data' = data /\ ret' = "this")
      ]_vars

\* C15: each flag of the configuration equals the value passed to the
\* constructor, false standing for an unset flag and for no configuration,
\* and no operation changes it afterwards.
C15_ConfigFixedAtConstruction ==
    /\ config.convertAllKeysToLowerCase =
           (configuration # Undefined /\ configuration.convertAllKeysToLowerCase = True)
    /\ config.convertAllValuesToLowerCase =
           (configuration # Undefined /\ configuration.convertAllValuesToLowerCase = True)

\* operations have run on a container constructed with one flag set and the
\* other left unset
C15_Witness ==
    /\ configuration # Undefined
    /\ configuration.convertAllKeysToLowerCase = Undefined
    /\ configuration.convertAllValuesToLowerCase = True
    /\ called = "populate"
    /\ view # NoRef
    /\ thisData # EmptyObject

\* C16: right after clear() the container is empty: empty() is true, keys()
\* and values() are empty sequences and has(k) is false for every key.
C16_ClearEmpties ==
    called = "clear" =>
        /\ empty
        /\ keys = << >>
        /\ values = << >>
        /\ \A k \in Keys : ~has(k, Undefined)

\* C17: put(k, v), a putIfNotExists(k, v) that returns true and forget(k)
\* change at most the entry under the normalised k: every other key is a key
\* before exactly when it is one after, with the same value, and the number
\* of keys changes by at most one.
C17_OnlyTheNamedEntryChanges ==
    [][LET OthersKept(k) ==
               /\ \A other \in Keys \ {convertKey(k)} :
                      /\ hasOwn(thisData', other) <=> hasOwn(thisData, other)
                      /\ hasOwn(thisData, other) =>
                             ownValue(thisData', other) = ownValue(thisData, other)
               /\ Len(keys') - Len(keys) \in {-1, 0, 1}
       IN  /\ called' = "put" =>
                  \A k \in Keys, v \in Values : Put(k, v) => OthersKept(k)
           /\ (called' = "putIfNotExists" /\ ret' = "true") =>
                  \A k \in Keys, v \in Values : PutIfNotExists(k, v) => OthersKept(k)
           /\ called' = "forget" =>
                  \A k \in Keys : Forget(k) => OthersKept(k)
      ]_vars

\* a forget has removed one of three entries
C17_Witness ==
    /\ called = "forget"
    /\ Len(keys) = 2
    /\ ~hasOwn(thisData, "a")
    /\ hasOwn(thisData, "A")
    /\ hasOwn(thisData, "constructor")

\* C18: the container never shares storage with the mapping passed to the
\* constructor: whatever the configuration, the caller's object holds after
\* construction and after every put, putIfNotExists and forget what it held
\* when the constructor was called.
C18_CallersObjectUntouched ==
    caller # NoRef => heap[caller] = given[1]

====
